---- MODULE Spec2Model ----
(***************************************************************************)
(* Diagonal Sudoku solver (solution.py): constraint propagation            *)
(* (only_choice, eliminate, naked_twins) driven to a fixed point by        *)
(* reduce_puzzle, and depth-first search over the most constrained box.    *)
(*                                                                         *)
(* Representation.  A Python string of digits is a sequence of the         *)
(* integers 1..9 ('' is <<>>); '.' in a grid is 0.  A box name 'A1'..'I9'  *)
(* is its index 1..81 in row-major order, which is also the order of the   *)
(* names as Python strings.  A values dictionary is a function from box    *)
(* to string; dictionaries live in `heap' and are referred to by index,    *)
(* so that two names for one dictionary share its mutations.               *)
(***************************************************************************)
EXTENDS Integers, Sequences, FiniteSets, TLC

VARIABLES
    grid,           \* the argument of solve
    hashorder,      \* iteration order of the peers sets in this process
    heap,           \* the values dictionaries alive, by reference
    stack,          \* the active invocations of search, root first
    pc,             \* position of the innermost invocation
    u,              \* loop position inside the running strategy
    snapshot,       \* values.copy() being iterated by eliminate
    choices_before, \* local of reduce_puzzle
    assignments,    \* the module-level assignment log
    calls,          \* the assign_value calls made by the last step
    result          \* value being returned by search

vars == <<grid, hashorder, heap, stack, pc, u, snapshot, choices_before,
          assignments, calls, result>>

----------------------------------------------------------------------------
(* Generic helpers *)

Range(f) == {f[i] : i \in DOMAIN f}

sorted(S) ==
    [i \in 1..Cardinality(S) |->
        CHOOSE x \in S : Cardinality({y \in S : y < x}) = i - 1]

reversed(s) == [i \in 1..Len(s) |-> s[Len(s) + 1 - i]]

False == <<>>

(* F applied to the value of x.  TLC hands an operator its arguments as     *)
(* unevaluated expressions; Eval evaluates x once.                          *)
Eval(x, F(_)) == CHOOSE r \in {F(v) : v \in {x}} : TRUE

(* for i in 1..n: acc = F(acc, i), for n up to the number of boxes.  The    *)
(* iterations are grouped in threes so that the evaluation nests four deep  *)
(* instead of n deep.                                                       *)
For1(acc, i, n, F(_, _)) == IF i > n THEN acc ELSE F(acc, i)

For3(acc, i, n, F(_, _)) ==
    IF i > n THEN acc
    ELSE Eval(For1(acc, i, n, F), LAMBDA a :
         Eval(For1(a, i + 1, n, F), LAMBDA b : For1(b, i + 2, n, F)))

For9(acc, i, n, F(_, _)) ==
    IF i > n THEN acc
    ELSE Eval(For3(acc, i, n, F), LAMBDA a :
         Eval(For3(a, i + 3, n, F), LAMBDA b : For3(b, i + 6, n, F)))

For27(acc, i, n, F(_, _)) ==
    IF i > n THEN acc
    ELSE Eval(For9(acc, i, n, F), LAMBDA a :
         Eval(For9(a, i + 9, n, F), LAMBDA b : For9(b, i + 18, n, F)))

For(acc, n, F(_, _)) ==
    Eval(acc, LAMBDA a0 :
    Eval(For27(a0, 1, n, F), LAMBDA a :
    Eval(For27(a, 28, n, F), LAMBDA b : For27(b, 55, n, F))))

----------------------------------------------------------------------------
(* Basic definitions *)

rows == <<1, 2, 3, 4, 5, 6, 7, 8, 9>>
cols == <<1, 2, 3, 4, 5, 6, 7, 8, 9>>

Name(a, b) == (a - 1) * Len(cols) + b

cross(A, B) ==
    [i \in 1..(Len(A) * Len(B)) |->
        Name(A[((i - 1) \div Len(B)) + 1], B[((i - 1) % Len(B)) + 1])]

boxes == cross(rows, cols)

row_units == [r \in 1..Len(rows) |-> cross(<<rows[r]>>, cols)]

column_units == [c \in 1..Len(cols) |-> cross(rows, <<cols[c]>>)]

bands == <<<<1, 2, 3>>, <<4, 5, 6>>, <<7, 8, 9>>>>

square_units ==
    [i \in 1..(Len(bands) * Len(bands)) |->
        cross(bands[((i - 1) \div Len(bands)) + 1],
              bands[((i - 1) % Len(bands)) + 1])]

diagonal(columns) == [i \in 1..Len(rows) |-> Name(rows[i], columns[i])]

diag_units == <<diagonal(cols), diagonal(reversed(cols))>>

unitlist == row_units \o column_units \o square_units \o diag_units

units == [s \in Range(boxes) |-> SelectSeq(unitlist, LAMBDA un : s \in Range(un))]

(* mutant: the peers through the diagonal units are forgotten *)
peers_without_diagonals ==
    [s \in Range(boxes) |->
        (UNION {Range(un) : un \in {x \in Range(row_units \o column_units \o square_units) :
                                        s \in Range(x)}}) \ {s}]

peers == [s \in Range(boxes) |->
             (UNION {Range(un) : un \in Range(units[s])}) \ {s}]

HashOrders == {"ascending", "descending"}

peers_iter ==
    [h \in HashOrders |-> [s \in Range(boxes) |->
        IF h = "ascending" THEN sorted(peers[s]) ELSE reversed(sorted(peers[s]))]]

----------------------------------------------------------------------------
(* Helpers *)

(* mutant: every change is recorded, not only a change to a single digit *)
assign_value_records_all(values, log, box, value) ==
    IF values[box] = value
    THEN [values |-> values, assignments |-> log]
    ELSE LET nv == [values EXCEPT ![box] = value]
         IN [values |-> nv, assignments |-> Append(log, nv)]

assign_value(values, log, box, value) ==
    IF values[box] = value
    THEN [values |-> values, assignments |-> log]
    ELSE LET nv == [values EXCEPT ![box] = value]
         IN [values |-> nv,
             assignments |-> IF Len(value) = 1 THEN Append(log, nv) ELSE log]

grid_values(g) ==
    [b \in Range(boxes) |-> IF g[b] = 0 THEN cols ELSE <<g[b]>>]

(* One assign_value call made by `caller', recorded in the step's trace. *)
Call(st, caller, box, value) ==
    Eval(assign_value(st.values, st.assignments, box, value), LAMBDA r :
        [values |-> r.values, assignments |-> r.assignments,
         calls |-> Append(st.calls, [caller |-> caller, box |-> box, value |-> value])])

----------------------------------------------------------------------------
(* Naked twins *)

set(value) == Range(value)

RECURSIVE naked_scan(_, _, _, _, _)
naked_scan(values, unit, k, naked, seen) ==
    IF k > Len(unit) THEN naked
    ELSE LET value == values[unit[k]]
         IN IF Len(value) # 2
            THEN naked_scan(values, unit, k + 1, naked, seen)
            ELSE IF value \in seen
                 THEN naked_scan(values, unit, k + 1, naked \cup set(value), seen)
                 ELSE naked_scan(values, unit, k + 1, naked, seen \cup {value})

(* mutant: every two-digit value counts as naked, seen twice or not *)
naked_twins_in_unit_unpaired(values, unit) ==
    UNION {set(values[unit[k]]) : k \in {j \in DOMAIN unit : Len(values[unit[j]]) = 2}}

naked_twins_in_unit(values, unit) == naked_scan(values, unit, 1, {}, {})

(* mutant: the guard against the empty new value is forgotten *)
naked_box_unguarded(st, naked, box) ==
    Eval(st.values[box], LAMBDA value :
    Eval(sorted(set(value) \ naked), LAMBDA new_value :
        IF new_value # value
        THEN Call(st, "naked_twins", box, new_value)
        ELSE st))

(* the body of the loop over the boxes of a unit *)
naked_box(st, naked, box) ==
    Eval(st.values[box], LAMBDA value :
    Eval(sorted(set(value) \ naked), LAMBDA new_value :
        IF new_value \notin {<<>>, value}
        THEN Call(st, "naked_twins", box, new_value)
        ELSE st))

naked_twins_unit(st, unit) ==
    Eval(naked_twins_in_unit(st.values, unit), LAMBDA naked :
        For(st, Len(unit), LAMBDA s, k : naked_box(s, naked, unit[k])))

naked_twins(st) ==
    For(st, Len(unitlist), LAMBDA s, n : naked_twins_unit(s, unitlist[n]))

----------------------------------------------------------------------------
(* Main solution *)

(* mutant: the result of replace is dropped, the value passed on as it was *)
replace_nothing(value, old) == value

replace(value, old) == SelectSeq(value, LAMBDA ch : ch # old[1])

(* the loop over peers[box] *)
eliminate_peers(st, value, ps) ==
    For(st, Len(ps), LAMBDA s, k :
        Call(s, "eliminate", ps[k], replace(s.values[ps[k]], value)))

eliminate_box(st, box, value, h) ==
    IF Len(value) = 1
    THEN eliminate_peers(st, value, peers_iter[h][box])
    ELSE st

eliminate(st, h) ==
    Eval(st.values, LAMBDA items :
        For(st, Len(boxes), LAMBDA s, n : eliminate_box(s, boxes[n], items[boxes[n]], h)))

(* mutant: a choice seen again keeps its first carrier *)
count_put_keeps_first(count, choice, peer) ==
    IF \E i \in DOMAIN count : count[i].found = choice
    THEN count
    ELSE Append(count, [found |-> choice, peer |-> peer])

(* count[choice] = '' if choice in count else peer *)
count_put(count, choice, peer) ==
    IF \E i \in DOMAIN count : count[i].found = choice
    THEN [i \in DOMAIN count |->
            IF count[i].found = choice
            THEN [found |-> choice, peer |-> 0] ELSE count[i]]
    ELSE Append(count, [found |-> choice, peer |-> peer])

count_unit(values, unit) ==
    For(<<>>, Len(unit), LAMBDA count, k :
        For(count, Len(values[unit[k]]), LAMBDA c, j :
            count_put(c, values[unit[k]][j], unit[k])))

only_choice_items(st, count) ==
    For(st, Len(count), LAMBDA s, k :
        IF count[k].peer # 0
        THEN Call(s, "only_choice", count[k].peer, <<count[k].found>>)
        ELSE s)

only_choice_unit(st, unit) ==
    Eval(count_unit(st.values, unit), LAMBDA count : only_choice_items(st, count))

only_choice(st) ==
    For(st, Len(unitlist), LAMBDA s, n : only_choice_unit(s, unitlist[n]))

(* mutant: any box with a value makes sense of the board *)
makes_sense_any(values) == \E b \in DOMAIN values : Len(values[b]) # 0

makes_sense(values) == 0 \notin {Len(values[b]) : b \in DOMAIN values}

(* mutant: the boxes still open are counted, not their choices *)
total_choices_open_boxes(values) ==
    For(0, Len(boxes), LAMBDA t, k : t + (IF Len(values[boxes[k]]) > 1 THEN 1 ELSE 0))

total_choices(values) ==
    For(0, Len(boxes), LAMBDA t, k : t + Len(values[boxes[k]]))

(* reduce_puzzle as one function of the board, the log and the peers order *)
RECURSIVE reduce_puzzle(_, _)
reduce_puzzle(st, h) ==
    IF ~makes_sense(st.values) THEN [st EXCEPT !.values = False]
    ELSE Eval(only_choice(st), LAMBDA a :
         Eval(eliminate(a, h), LAMBDA b :
         Eval(naked_twins(b), LAMBDA nx :
            IF total_choices(st.values) = total_choices(nx.values)
            THEN nx
            ELSE reduce_puzzle(nx, h))))

(* fill of search: the boxes with more than one possibility *)
fill(values) == {b \in DOMAIN values : Len(values[b]) > 1}

(* min(fill): least (len, box, value); box names are distinct *)
min_fill(values) ==
    Eval(fill(values), LAMBDA f :
    Eval(CHOOSE x \in f : \A y \in f :
            \/ Len(values[x]) < Len(values[y])
            \/ Len(values[x]) = Len(values[y]) /\ x <= y,
         LAMBDA b : <<Len(values[b]), b, values[b]>>))

(* mutant: the whole of guess[2] is assigned, not the choice *)
choice_whole_guess(guess, i) == guess[3]

(* the choice of the i-th iteration of the loop over guess[2] *)
choice(guess, i) == <<guess[3][i]>>

(* mutant: the branch works on the node's own dictionary *)
dict_copy_alias(h, ref) == [heap |-> h, ref |-> ref]

dict_copy(h, ref) == [heap |-> Append(h, h[ref]), ref |-> Len(h) + 1]

----------------------------------------------------------------------------
(* Inputs *)

diag_sudoku_grid ==
    <<2,0,0,0,0,0,0,0,0, 0,0,0,0,0,6,2,0,0, 0,0,1,0,0,0,0,7,0,
      0,0,6,0,0,8,0,0,0, 3,0,0,0,9,0,0,0,7, 0,0,0,6,0,0,4,0,0,
      0,4,0,0,0,0,8,0,0, 0,0,5,2,0,0,0,0,0, 0,0,0,0,0,0,0,0,3>>

(* The board solve returns for diag_sudoku_grid. *)
diag_sudoku_solved ==
    <<2,6,7,9,4,5,3,8,1, 8,5,3,7,1,6,2,4,9, 4,9,1,8,2,3,5,7,6,
      5,7,6,4,3,8,1,9,2, 3,8,4,1,9,2,6,5,7, 1,2,9,6,5,7,4,3,8,
      6,4,2,3,7,9,8,1,5, 9,3,5,2,8,1,7,6,4, 7,1,8,5,6,4,9,2,3>>

empty_grid == [b \in 1..Len(boxes) |-> 0]

(* The solved board with its last k boxes left empty. *)
Blanked(k) == [b \in 1..Len(boxes) |-> IF b > Len(boxes) - k THEN 0 ELSE diag_sudoku_solved[b]]

NumBlanked == 3

BlankCounts ==
    {IF 36 * j > Len(boxes) THEN 0 ELSE Len(boxes) - 36 * j : j \in 0..(NumBlanked - 1)}

(* The empty grid with the digit 5 given in A1 and in the p-th box after   *)
(* it in row A.                                                            *)
TwoAlike(p) ==
    [b \in 1..Len(boxes) |-> IF b \in {1, 1 + p} THEN 5 ELSE 0]

NumTwoAlike == 4

(* The solved board with rows H and I left empty, but for I9, which is     *)
(* given the digit the solved board has in the p-th box of its diagonal:   *)
(* A1, B2, C3, D4, ...                                                     *)
Clash(p) ==
    [Blanked(2 * Len(cols)) EXCEPT ![Len(boxes)] =
        diag_sudoku_solved[(p - 1) * (Len(cols) + 1) + 1]]

NumClash == 4

Inputs ==
    {diag_sudoku_grid}
        \cup {Blanked(k) : k \in BlankCounts}
        \cup {TwoAlike(p) : p \in 1..NumTwoAlike}
        \cup {Clash(p) : p \in 1..NumClash}

----------------------------------------------------------------------------
(* The state machine of solve(grid) *)

Top == stack[Len(stack)]
cur == heap[Top.values]
NoGuess == <<0, 0, <<>>>>

St == [values |-> cur, assignments |-> assignments, calls |-> <<>>]

(* the first box at or after b that the snapshot holds fixed; Len+1 if none *)
next_fixed(snap, b) ==
    LET rest == {k \in b..Len(boxes) : Len(snap[boxes[k]]) = 1}
    IN IF rest = {} THEN Len(boxes) + 1
       ELSE CHOOSE k \in rest : \A j \in rest : k <= j

Store(st) ==
    /\ heap' = [heap EXCEPT ![Top.values] = st.values]
    /\ assignments' = st.assignments
    /\ calls' = st.calls

Init ==
    /\ grid \in Inputs
    /\ hashorder \in HashOrders
    /\ heap = <<grid_values(grid)>>
    /\ stack = <<[values |-> 1, guess |-> NoGuess, i |-> 0]>>
    /\ pc = "while"
    /\ u = 0
    /\ snapshot = <<>>
    /\ choices_before = 0
    /\ assignments = <<>>
    /\ calls = <<>>
    /\ result = False

(* reduce_puzzle: the loop test, and choices_before *)
ReduceWhile ==
    /\ pc = "while"
    /\ IF makes_sense(cur)
       THEN /\ choices_before' = total_choices(cur)
            /\ pc' = "only_choice"
            /\ u' = 1
       ELSE /\ choices_before' = 0
            /\ pc' = "return_False"
            /\ u' = 0
    /\ calls' = <<>>
    /\ UNCHANGED <<grid, hashorder, heap, stack, snapshot, assignments, result>>

(* only_choice: one unit *)
OnlyChoiceUnit ==
    /\ pc = "only_choice"
    /\ \E st \in {only_choice_unit(St, unitlist[u])} :
          /\ Store(st)
          /\ IF u < Len(unitlist)
             THEN /\ u' = u + 1
                  /\ pc' = "only_choice"
                  /\ snapshot' = snapshot
             ELSE IF next_fixed(st.values, 1) > Len(boxes)
                  THEN /\ pc' = "naked_twins"
                       /\ u' = 1
                       /\ snapshot' = <<>>
                  ELSE /\ pc' = "eliminate"
                       /\ u' = next_fixed(st.values, 1)
                       /\ snapshot' = st.values
    /\ UNCHANGED <<grid, hashorder, stack, choices_before, result>>

(* eliminate: one fixed box of the snapshot, against all its peers *)
EliminateBox ==
    /\ pc = "eliminate"
    /\ \E st \in {eliminate_box(St, boxes[u], snapshot[boxes[u]], hashorder)} :
          Store(st)
    /\ IF next_fixed(snapshot, u + 1) > Len(boxes)
       THEN /\ pc' = "naked_twins"
            /\ u' = 1
            /\ snapshot' = <<>>
       ELSE /\ pc' = "eliminate"
            /\ u' = next_fixed(snapshot, u + 1)
            /\ snapshot' = snapshot
    /\ UNCHANGED <<grid, hashorder, stack, choices_before, result>>

(* naked_twins: one unit *)
NakedTwinsUnit ==
    /\ pc = "naked_twins"
    /\ \E st \in {naked_twins_unit(St, unitlist[u])} :
          /\ Store(st)
          /\ IF u < Len(unitlist)
             THEN /\ pc' = "naked_twins"
                  /\ u' = u + 1
             ELSE /\ pc' = "if"
                  /\ u' = 0
    /\ snapshot' = <<>>
    /\ UNCHANGED <<grid, hashorder, stack, choices_before, result>>

(* reduce_puzzle: are we getting closer *)
ReduceIf ==
    /\ pc = "if"
    /\ pc' = IF choices_before = total_choices(cur) THEN "fill" ELSE "while"
    /\ choices_before' = 0
    /\ calls' = <<>>
    /\ UNCHANGED <<grid, hashorder, heap, stack, u, snapshot, assignments, result>>

(* search: reduce_puzzle returned values; solved, or choose the guess *)
SearchFill ==
    /\ pc = "fill"
    /\ IF fill(cur) = {}
       THEN /\ pc' = "return_values"
            /\ result' = cur
            /\ stack' = stack
       ELSE /\ pc' = "for"
            /\ result' = result
            /\ stack' = [stack EXCEPT ![Len(stack)] =
                            [@ EXCEPT !.guess = min_fill(cur), !.i = 1]]
    /\ calls' = <<>>
    /\ UNCHANGED <<grid, hashorder, heap, u, snapshot, choices_before, assignments>>

(* search: one iteration of the loop over the choices, up to the call *)
SearchFor ==
    /\ pc = "for"
    /\ IF Top.i <= Len(Top.guess[3])
       THEN \E c \in {dict_copy(heap, Top.values)} :
            \E st \in {Call([values |-> c.heap[c.ref], assignments |-> assignments,
                             calls |-> <<>>],
                            "search", Top.guess[2], choice(Top.guess, Top.i))} :
               /\ heap' = [c.heap EXCEPT ![c.ref] = st.values]
               /\ assignments' = st.assignments
               /\ calls' = st.calls
               /\ stack' = Append(stack, [values |-> c.ref, guess |-> NoGuess, i |-> 0])
               /\ pc' = "while"
       ELSE /\ pc' = "return_False"
            /\ calls' = <<>>
            /\ UNCHANGED <<heap, assignments, stack>>
    /\ UNCHANGED <<grid, hashorder, u, snapshot, choices_before, result>>

Live(s) == {s[d].values : d \in DOMAIN s}
Collect(h, s) == SubSeq(h, 1, CHOOSE m \in Live(s) : \A r \in Live(s) : r <= m)

(* search returns False to its caller *)
SearchReturnFalse ==
    /\ pc = "return_False"
    /\ IF Len(stack) = 1
       THEN /\ pc' = "done"
            /\ result' = False
            /\ UNCHANGED <<stack, heap>>
       ELSE LET s == SubSeq(stack, 1, Len(stack) - 1)
            IN /\ stack' = [s EXCEPT ![Len(s)] = [@ EXCEPT !.i = @ + 1]]
               /\ heap' = Collect(heap, s)
               /\ pc' = "for"
               /\ result' = result
    /\ calls' = <<>>
    /\ UNCHANGED <<grid, hashorder, u, snapshot, choices_before, assignments>>

(* search returns a board to its caller *)
SearchReturnValues ==
    /\ pc = "return_values"
    /\ IF Len(stack) = 1
       THEN /\ pc' = "done"
            /\ UNCHANGED <<stack, heap>>
       ELSE LET s == SubSeq(stack, 1, Len(stack) - 1)
            IN /\ stack' = s
               /\ heap' = heap
               /\ pc' = "return_values"
    /\ calls' = <<>>
    /\ UNCHANGED <<grid, hashorder, u, snapshot, choices_before, assignments, result>>

Next ==
    \/ ReduceWhile
    \/ OnlyChoiceUnit
    \/ EliminateBox
    \/ NakedTwinsUnit
    \/ ReduceIf
    \/ SearchFill
    \/ SearchFor
    \/ SearchReturnFalse
    \/ SearchReturnValues

Spec == Init /\ [][Next]_vars

(* solve is one synchronous computation: it runs while it has a step *)
FairSpec == Spec /\ WF_vars(Next)

----------------------------------------------------------------------------
(* Properties *)

AsState(values) == [values |-> values, assignments |-> assignments, calls |-> <<>>]

IsSolvedBoard(board) ==
    /\ \A b \in Range(boxes) : Len(board[b]) = 1
    /\ \A n \in DOMAIN unitlist : \A j, k \in DOMAIN unitlist[n] :
          j # k => board[unitlist[n][j]] # board[unitlist[n][k]]

(* C1: a board returned by search has one digit in every box and pairwise  *)
(* distinct digits in every row, column, square and diagonal.              *)
C1_ReturnedBoardIsValid == result # False => IsSolvedBoard(result)

C1_Witness == pc = "done" /\ grid[Len(boxes)] = 0 /\ result # False

Unfixed(values) == Cardinality({b \in Range(boxes) : Len(values[b]) > 1})

Agrees(g, board) == \A b \in Range(boxes) : g[b] # 0 => board[b] = <<g[b]>>

HasSolution(g) ==
    \E s \in {grid_values(diag_sudoku_solved)} : IsSolvedBoard(s) /\ Agrees(g, s)

(* C2: solve returns False only if no solution exists: a grid that agrees  *)
(* with a complete valid assignment is solved, the empty grid included.    *)
C2_FalseOnlyIfUnsolvable == (pc = "done" /\ HasSolution(grid)) => result # False

C2_Witness ==
    /\ pc = "done"
    /\ HasSolution(grid)
    /\ result # False
    /\ Len(assignments) > Unfixed(grid_values(grid))

HasDuplicateGivens(g) ==
    \E n \in DOMAIN unitlist : \E j, k \in DOMAIN unitlist[n] :
        /\ j # k
        /\ g[unitlist[n][j]] # 0
        /\ g[unitlist[n][j]] = g[unitlist[n][k]]

(* C3: a grid with the same digit given twice in one unit is reported      *)
(* unsolvable: solve returns False.                                        *)
C3_DuplicateGivensFail == (pc = "done" /\ HasDuplicateGivens(grid)) => result = False

C3_Witness ==
    /\ pc = "done"
    /\ grid[1] = 5 /\ grid[2] = 5
    /\ result = False

(* C4: reduce_puzzle is idempotent: run again on the board it has just     *)
(* returned, it returns that board, equal in every box.                    *)
C4_ReduceIdempotent ==
    pc = "fill" =>
        \A st \in {AsState(cur)} : \A r \in {reduce_puzzle(st, hashorder)} : r.values = cur

C4_Witness == pc = "fill" /\ fill(cur) # {} /\ Len(stack) > 1

(* the board after the first k calls of cs have written their values *)
RECURSIVE Written(_, _, _)
Written(board, cs, k) ==
    IF k = 0 THEN board
    ELSE [Written(board, cs, k - 1) EXCEPT ![cs[k].box] = cs[k].value]

Fixing(board, cs) ==
    {k \in DOMAIN cs : /\ Len(cs[k].value) = 1
                       /\ Written(board, cs, k - 1)[cs[k].box] # cs[k].value}

(* C5: the log is append-only; each assign_value call that changes a box   *)
(* to a single digit appends exactly one snapshot, the board right after   *)
(* that call; every other call appends nothing, and a call passing the     *)
(* value the box already holds changes neither the board nor the log.      *)
C5_LogFollowsCalls ==
    [][LET cs == calls'
           fx == Fixing(cur, cs)
           n == Len(assignments)
       IN /\ Len(assignments') = n + Cardinality(fx)
          /\ SubSeq(assignments', 1, n) = assignments
          /\ \A k \in fx :
                assignments'[n + Cardinality({j \in fx : j <= k})] = Written(cur, cs, k)
          /\ cs # <<>> => heap'[Top'.values] = Written(cur, cs, Len(cs))]_vars

C5_Witness ==
    /\ Len(calls) > 1
    /\ Len(assignments) > 1
    /\ assignments[Len(assignments)] # cur
    /\ \E k \in DOMAIN calls : calls[k].value = cur[calls[k].box]

(* C6 as claimed: no caller passes assign_value the empty value.           *)
C6_NoEmptyValuePassed == \A k \in DOMAIN calls : calls[k].value # <<>>

(* C6: only_choice, naked_twins and search never pass assign_value the     *)
(* empty value; eliminate does, and only eliminate.                        *)
C6_OnlyEliminatePassesEmpty ==
    \A k \in DOMAIN calls : calls[k].value = <<>> => calls[k].caller = "eliminate"

C6_Witness ==
    /\ \E k \in DOMAIN calls : calls[k].caller = "naked_twins" /\ Len(calls[k].value) > 1
    /\ Len(stack) > 1

InPass == pc \in {"only_choice", "eliminate", "naked_twins"}

HasEmpty(values) == \E b \in Range(boxes) : values[b] = <<>>

(* C7 as claimed: once a box is empty, no strategy step mutates a box or   *)
(* appends a snapshot before reduce_puzzle returns False.                  *)
C7_NothingAfterEmpty ==
    [][(InPass /\ HasEmpty(cur)) => (heap' = heap /\ assignments' = assignments)]_vars

(* C7: once a box is empty, reduce_puzzle completes the pass in progress,  *)
(* takes the loop test next, and there returns False without running       *)
(* another pass; it never returns a board with an empty box.               *)
C7_FalseAtNextLoopTest ==
    [][/\ (HasEmpty(cur) /\ InPass) => pc' \in {"only_choice", "eliminate", "naked_twins", "if"}
       /\ (HasEmpty(cur) /\ pc = "if") => pc' = "while"
       /\ (HasEmpty(cur) /\ pc = "while") =>
             /\ pc' = "return_False"
             /\ heap' = heap
             /\ assignments' = assignments
       /\ pc' = "fill" => ~HasEmpty(cur')]_vars

C7_Witness == pc = "while" /\ HasEmpty(cur) /\ Len(stack) > 1

(* C8: the board of a search node that waits for a recursive call is not   *)
(* changed by that call: each branch works on a copy, which starts as the  *)
(* node's reduced board with the guessed box set to the choice.            *)
C8_BranchesIsolated ==
    [][/\ \A d \in 1..(Len(stack) - 1) :
             d <= Len(stack') => heap'[stack'[d].values] = heap[stack[d].values]
       /\ Len(stack') > Len(stack) =>
             /\ heap'[Top.values] = cur
             /\ heap'[Top'.values] = [cur EXCEPT ![Top.guess[2]] = <<Top.guess[3][Top.i]>>]]_vars

C8_Witness == pc = "for" /\ Top.i > 1 /\ Top.i <= Len(Top.guess[3])

(* the total number of candidates: the pairs of a box and a position in its value *)
Candidates(values) ==
    Cardinality(UNION {{<<b, j>> : j \in DOMAIN values[b]} : b \in Range(boxes)})

(* C9: solve terminates; no step enlarges a box's value, an iteration of   *)
(* reduce_puzzle that loops has decreased the total count, every child     *)
(* node has fewer unfixed boxes than its parent, and the number of nested  *)
(* recursive calls is at most the number of unfixed boxes of the input.    *)
C9_Terminates ==
    /\ <>(pc = "done")
    /\ [](/\ Len(stack) - 1 <= Unfixed(grid_values(grid))
          /\ \A d \in 2..Len(stack) :
                Unfixed(heap[stack[d].values]) < Unfixed(heap[stack[d - 1].values]))
    /\ [][/\ InPass => \A b \in Range(boxes) :
                           Len(heap'[Top.values][b]) <= Len(cur[b])
          /\ (pc = "while" /\ pc' = "only_choice") => choices_before' = Candidates(cur)
          /\ (pc = "if" /\ pc' = "while") => Candidates(cur) < choices_before]_vars

C9_Witness == Len(stack) > 2 /\ pc = "if" /\ Candidates(cur) < choices_before

Carriers(board, unit, d) == {k \in DOMAIN unit : d \in set(board[unit[k]])}

Sole(board, unit, k) == {d \in Range(cols) : Carriers(board, unit, d) = {k}}

(* C10 as claimed: after only_choice has processed a unit, every box that  *)
(* alone carried a digit holds exactly that digit, and no other box of     *)
(* the unit was forced.                                                    *)
C10_EverySoleDigitForced ==
    [][pc = "only_choice" =>
        \A k \in DOMAIN unitlist[u] :
            /\ \A d \in Sole(cur, unitlist[u], k) : heap'[Top.values][unitlist[u][k]] = <<d>>
            /\ Sole(cur, unitlist[u], k) = {} =>
                  heap'[Top.values][unitlist[u][k]] = cur[unitlist[u][k]]]_vars

(* C10: after only_choice has processed a unit, a box that alone carried   *)
(* one digit holds exactly that digit, a box that alone carried several    *)
(* holds the largest of them, and every other box is unchanged.            *)
C10_SoleDigitForced ==
    [][pc = "only_choice" =>
        /\ \A k \in DOMAIN unitlist[u] :
              LET D == Sole(cur, unitlist[u], k)
                  after == heap'[Top.values][unitlist[u][k]]
              IN IF D = {} THEN after = cur[unitlist[u][k]]
                 ELSE after = <<CHOOSE d \in D : \A e \in D : e <= d>>
        /\ \A b \in Range(boxes) \ Range(unitlist[u]) : heap'[Top.values][b] = cur[b]]_vars

C10_Witness ==
    /\ \E j, k \in DOMAIN calls :
          /\ j < k
          /\ calls[j].caller = "only_choice"
          /\ calls[j].box = calls[k].box
          /\ calls[j].value # calls[k].value
    /\ \E k \in DOMAIN calls : Len(assignments) > 0 /\ calls[k].value = cur[calls[k].box]

====
